---- MODULE Spec2Model ----
(***************************************************************************)
(* Batch image cropper (src/app.py): a Streamlit script.  Every user       *)
(* interaction re-runs the script top to bottom; the widgets keep their    *)
(* values between runs.  The model's state is the widgets' values          *)
(* (uploaded files, reference selection, rotation, crop mode, rectangle),  *)
(* what the last run put on the page, and the batch loop's position.  A    *)
(* widget touched while the batch loop is going on starts a new run, which *)
(* ends the loop.                                                          *)
(*                                                                         *)
(* Strings are sequences of one-character strings, so that split, upper    *)
(* and os.path.splitext are computed character by character.  An image is  *)
(* its size, its pixel mode and whether its bytes decode; rotation is      *)
(* modelled for the right angles of the slider's range, where PIL's        *)
(* expanded canvas has exact integer dimensions.                           *)
(***************************************************************************)
EXTENDS Integers, Sequences, FiniteSets, TLC

\* ---------------------------------------------------------------- bounds
\* Most files in one upload.
MaxFiles == 2
\* Largest image width and height, in pixels.
MaxDim == 2
\* Most characters of a file name before its extension.
MaxStem == 2

\* ------------------------------------------------------ program constants
\* Default of the manual Right and Bottom inputs: min(200, img_w).
DefaultExtent == 200

\* --------------------------------------------------------------- strings
\* A string is a sequence of characters, over ASCII and Latin-1.  The
\* lower-case letters of that alphabet whose upper case is one character of
\* it, and their upper case, letter by letter.
Lowers == <<"a","b","c","d","e","f","g","h","i","j","k","l","m",
            "n","o","p","q","r","s","t","u","v","w","x","y","z",
            "à","á","â","ã","ä","å","æ","ç","è","é","ê","ë","ì","í","î",
            "ï","ð","ñ","ò","ó","ô","õ","ö","ø","ù","ú","û","ü","ý","þ">>
Uppers == <<"A","B","C","D","E","F","G","H","I","J","K","L","M",
            "N","O","P","Q","R","S","T","U","V","W","X","Y","Z",
            "À","Á","Â","Ã","Ä","Å","Æ","Ç","È","É","Ê","Ë","Ì","Í","Î",
            "Ï","Ð","Ñ","Ò","Ó","Ô","Õ","Ö","Ø","Ù","Ú","Û","Ü","Ý","Þ">>

\* Two characters beyond Latin-1 that str.upper() yields from it, each one
\* character, written by its code point: GREEK CAPITAL LETTER MU and
\* LATIN CAPITAL LETTER Y WITH DIAERESIS.
CapitalMu == "U+039C"
CapitalYDiaeresis == "U+0178"

\* The absent declared type (Python's None): no string, so not a sequence
\* of characters; its one element is not a character.
None == <<"<None>">>

ImagePng  == <<"i","m","a","g","e","/","p","n","g">>
ImageJpeg == <<"i","m","a","g","e","/","j","p","e","g">>
ImageJpg  == <<"i","m","a","g","e","/","j","p","g">>
PNG  == <<"P","N","G">>
JPG  == <<"J","P","G">>
JPEG == <<"J","P","E","G">>
GIF  == <<"G","I","F">>
Suffix == <<"_","C","r","o","p","p","e","d">>

MaxOf(S) == CHOOSE x \in S : \A y \in S : y <= x

\* The upper case of each letter of Lowers.
UpperOf ==
    [c \in {Lowers[k] : k \in DOMAIN Lowers} |->
       Uppers[CHOOSE k \in DOMAIN Lowers : Lowers[k] = c]]

\* str.upper() of one character: a string, of two characters for the
\* sharp s.
UpperChar(c) ==
    IF c = "ß" THEN <<"S", "S">>
    ELSE IF c = "µ" THEN <<CapitalMu>>
    ELSE IF c = "ÿ" THEN <<CapitalYDiaeresis>>
    ELSE IF c \in DOMAIN UpperOf THEN <<UpperOf[c]>>
    ELSE <<c>>

\* str.upper() of s from its k-th character on.
RECURSIVE UpperFrom(_, _)
UpperFrom(s, k) ==
    IF k > Len(s) THEN <<>> ELSE UpperChar(s[k]) \o UpperFrom(s, k + 1)

\* str.upper(): the upper case of each character, in order.
Upper(s) == UpperFrom(s, 1)

\* str.rfind(c), 1-based; 0 when c does not occur (Python's -1).
RFind(s, c) ==
    LET I == {k \in 1..Len(s) : s[k] = c}
    IN  IF I = {} THEN 0 ELSE MaxOf(I)

\* s.split('/')[-1]: what follows the last '/', all of s when there is none.
LastField(s) == SubSeq(s, RFind(s, "/") + 1, Len(s))

\* ---------------------------------------------------------- format (150-153)
\* `if file.type`: None and '' are false.
Truthy(t) == t /= None /\ t /= <<>>

\* ResolveFormat without line 153: JPG is left as it is.
MutResolveFormat(t) ==
    IF Truthy(t) THEN Upper(LastField(t)) ELSE PNG

\* fmt = file.type.split('/')[-1].upper() if file.type else 'PNG'
\* if fmt == 'JPG': fmt = 'JPEG'
ResolveFormat(t) ==
    LET fmt == IF Truthy(t) THEN Upper(LastField(t)) ELSE PNG
    IN  IF fmt = JPG THEN JPEG ELSE fmt

\* -------------------------------------------------------- file name (157-162)
\* SplitExt that never splits: the suffix would follow the extension.
MutSplitExt(p) == <<p, <<>>>>

\* os.path.splitext(p): split at the last dot that follows the last '/',
\* unless only dots lie between that '/' and it.
SplitExt(p) ==
    LET sepIndex == RFind(p, "/")
        dotIndex == RFind(p, ".")
    IN  IF /\ dotIndex > sepIndex
           /\ \E k \in (sepIndex + 1)..(dotIndex - 1) : p[k] /= "."
        THEN <<SubSeq(p, 1, dotIndex - 1), SubSeq(p, dotIndex, Len(p))>>
        ELSE <<p, <<>>>>

\* f"{filename}_Cropped{ext}"
EntryName(name) ==
    LET parts == SplitExt(name)
    IN  parts[1] \o Suffix \o parts[2]

\* ----------------------------------------------------------------- images
\* An uploaded file: its name, the media type the browser declared, and its
\* bytes, which are those of an image of some size and pixel mode
\* ("RGB", "RGBA"), or are no image at all ("corrupt": Image.open raises),
\* or are cut short ("truncated": Image.open reads the header, and the
\* first operation that loads the pixels raises).
File(n, t, s, c) == [name |-> n, type |-> t, size |-> s, content |-> c]

\* Image.rotate(deg, expand=True) for deg a multiple of 90: PIL transposes,
\* and a quarter turn swaps width and height.
RotatedSize(size, deg) ==
    IF (deg % 360) \in {90, 270} THEN <<size[2], size[1]>> ELSE size

\* CropSize with the box read as (x, y, width, height).
MutCropSize(rect) == <<rect[3], rect[4]>>

\* Image.crop(box): the result has the box's size, whatever the image's.
CropSize(rect) == <<rect[3] - rect[1], rect[4] - rect[2]>>

\* Image.crop(box) fills what lies outside the image with zeros.
CropPads(size, rect) ==
    \/ rect[1] < 0 \/ rect[2] < 0
    \/ rect[3] > size[1] \/ rect[4] > size[2]

\* Formats Image.save knows.
SaveFormats == {PNG, JPEG, GIF}

\* Image.save(buf, format=fmt) raises for a format it does not know, and
\* for JPEG when the image has an alpha channel.
SaveRaises(mode, fmt) ==
    \/ fmt \notin SaveFormats
    \/ fmt = JPEG /\ mode = "RGBA"

\* ------------------------------------------------- one item (lines 136-165)
\* The body of the try block for one file: the statement that raised
\* ("none" when none did), the format chosen (NotReached when line 152 was
\* not reached) and the entry written to the archive (at most one).
NotReached == <<"<not reached>">>

Outcome(stage, fmt, entries) ==
    [raised |-> stage, fmt |-> fmt, entries |-> entries]

\* The entry of file number k: zf.writestr(name, bytes), the bytes those of
\* the cropped image in format fmt.
Entry(k, file, fmt, rotated, size, rect) ==
    [name    |-> EntryName(file.name),
     item    |-> k,
     format  |-> fmt,
     size    |-> CropSize(rect),
     padded  |-> CropPads(size, rect),
     rotated |-> rotated]

\* TryItem with the entry written before the image is saved: a save that
\* raises leaves an entry behind.
MutTryItem(k, file, angle, rect) ==
    LET rotated == angle /= 0
        size    == IF rotated THEN RotatedSize(file.size, -angle) ELSE file.size
        fmt     == ResolveFormat(file.type)
    IN  IF file.content = "corrupt"
          THEN Outcome("open", NotReached, <<>>)
        ELSE IF rotated /\ file.content = "truncated"
          THEN Outcome("rotate", NotReached, <<>>)
        ELSE IF \/ rect[3] < rect[1] \/ rect[4] < rect[2]
                \/ file.content = "truncated"
          THEN Outcome("crop", NotReached, <<>>)
        ELSE IF SaveRaises(file.content, fmt)
          THEN Outcome("save", fmt, <<Entry(k, file, fmt, rotated, size, rect)>>)
        ELSE Outcome("none", fmt, <<Entry(k, file, fmt, rotated, size, rect)>>)

TryItem(k, file, angle, rect) ==
    LET rotated == angle /= 0
        size    == IF rotated THEN RotatedSize(file.size, -angle) ELSE file.size
        fmt     == ResolveFormat(file.type)
    IN  IF file.content = "corrupt"
          THEN Outcome("open", NotReached, <<>>)                  \* line 138
        ELSE IF rotated /\ file.content = "truncated"
          THEN Outcome("rotate", NotReached, <<>>)                \* line 142
        ELSE IF \/ rect[3] < rect[1] \/ rect[4] < rect[2]
                \/ file.content = "truncated"
          THEN Outcome("crop", NotReached, <<>>)                  \* line 145
        ELSE IF SaveRaises(file.content, fmt)
          THEN Outcome("save", fmt, <<>>)                         \* line 155
        ELSE Outcome("none", fmt,                                 \* line 162
                     <<Entry(k, file, fmt, rotated, size, rect)>>)

\* ------------------------------------------------------------------ state
VARIABLES
    uploaded_files,  \* st.file_uploader's value: the files, in upload order
    ref_img_name,    \* the selectbox's value
    rotate_angle,    \* the slider's value
    crop_mode,       \* the radio's value: "draw" or "manual"
    rect,            \* (left, top, right, bottom) of this run
    pc,              \* where the last run of the script ended
    preview,         \* the Crop Result column: a size, or "warning"
    i,               \* the batch loop's index
    zf,              \* the archive's entries, in the order written
    console,         \* what print() wrote: the names of the items that raised
    outcome,         \* per item visited, what its try block did
    progress,        \* the progress bar: <<done, total>>
    status_text,     \* the status line
    alert,           \* st.error's message, "" when none is shown
    download,        \* <<archive>> when the download button is shown, else <<>>
    draw_checks      \* whether the installed Pillow's ImageDraw.rectangle
                     \* raises for x1 < x0 or y1 < y0 (from 9.5 on it does;
                     \* the repository pins no version)

vars == <<uploaded_files, ref_img_name, rotate_angle, crop_mode, rect, pc,
          preview, i, zf, console, outcome, progress, status_text, alert,
          download, draw_checks>>

NoName == <<>>
NoRect == <<0, 0, 0, 0>>
Quiet  == [kind |-> "empty", name |-> NoName]
Processing(n) == [kind |-> "processing", name |-> n]
Complete == [kind |-> "success", name |-> NoName]

\* The slider's values that are modelled: the right angles of [-180, 180].
Angles == {-90, 0, 180}
Modes  == {"draw", "manual"}

\* img_map = {f.name: f for f in uploaded_files}: the last file of a name.
ImgMap(fs, n) == fs[MaxOf({k \in 1..Len(fs) : fs[k].name = n})]

\* list(img_map.keys()): the names, each once, in order of first upload.
KeyList(fs) ==
    LET first(k) == \A j \in 1..(k - 1) : fs[j].name /= fs[k].name
        firsts   == SelectSeq([k \in 1..Len(fs) |-> k], first)
    IN  [k \in 1..Len(firsts) |-> fs[firsts[k]].name]

Keys(fs) == {fs[k].name : k \in 1..Len(fs)}

\* The selectbox's value in a run with these files: the value it had while
\* its options are the same, its first option (index=0) when they changed.
Selected(fs) ==
    IF fs = <<>> THEN NoName
    ELSE IF KeyList(fs) = KeyList(uploaded_files) THEN ref_img_name
    ELSE KeyList(fs)[1]

\* The line at which a run of the script raises on the reference's bytes,
\* 0 when none does: Image.open of the reference (44), its rotation (51),
\* the cropper widget (71) or the manual preview's copy (104), each the
\* first to load the reference's pixels.
LoadLine(fs, ref, angle, mode) ==
    LET f == ImgMap(fs, ref)
    IN  IF f.content = "corrupt" THEN 44
        ELSE IF f.content /= "truncated" THEN 0
        ELSE IF angle /= 0 THEN 51
        ELSE IF mode = "draw" THEN 71
        ELSE 104

\* The line at which a run of the script with the rectangle r raises
\* before it reaches the batch button, 0 when it reaches it: a line that
\* loads the reference, or the manual preview's draw.rectangle (106), given
\* right < left or bottom < top, where Pillow checks that.
CrashLine(fs, ref, angle, mode, r) ==
    LET at == LoadLine(fs, ref, angle, mode)
    IN  IF at /= 0 THEN at
        ELSE IF /\ mode = "manual"
                /\ draw_checks
                /\ (r[3] < r[1] \/ r[4] < r[2])
          THEN 106
        ELSE 0

\* processed_image.size (lines 50-55).
ProcessedSize(fs, ref, angle) ==
    LET f == ImgMap(fs, ref)
    IN  IF angle /= 0 THEN RotatedSize(f.size, -angle) ELSE f.size

\* ValidRect with >= for >: an empty rectangle passes.
MutValidRect(r) == r[3] >= r[1] /\ r[4] >= r[2]

\* Lines 114 and 126: right > left and bottom > top.
ValidRect(r) == r[3] > r[1] /\ r[4] > r[2]

\* Whether a run with these widget values renders the rectangle's inputs.
RectRendered(fs, ref, angle, mode) ==
    fs /= <<>> /\ LoadLine(fs, ref, angle, mode) \in {0, 104}

\* ---------------------------------------------------- rectangle (78-100)
\* int() of a non-negative number given in halves.
IntOfHalves(x2) == x2 \div 2

\* The boxes the cropper can return along one axis of an image `extent`
\* pixels long, as <<left, width>> in half pixels: the box lies on the image.
CropBoxAxis(extent) ==
    {<<l2, w2>> \in (0..(2 * extent)) \X (0..(2 * extent)) : l2 + w2 <= 2 * extent}

\* rect_left = int(crop_box['left']); rect_right = int(left + width).
DrawExtent(b) == <<IntOfHalves(b[1]), IntOfHalves(b[1] + b[2])>>

\* The cropper's initial box: the middle of the image, a fifth of it left
\* free on every side.
DefaultBoxAxis(extent) ==
    <<(2 * extent) \div 10, (8 * extent) \div 10>>

\* ManualMax one past the image.
MutManualMax(extent) == extent + 1

\* max_value of the manual inputs: img_w, img_h.
ManualMax(extent) == extent

Min(a, b) == IF a < b THEN a ELSE b

\* The manual inputs' defaults: 0, 0, min(200, img_w), min(200, img_h).
ManualDefault(size) ==
    <<0, 0, Min(DefaultExtent, size[1]), Min(DefaultExtent, size[2])>>

\* Whether the last run rendered the rectangle's widgets of this mode.
WasRendered(mode) ==
    /\ uploaded_files /= <<>>
    /\ crop_mode = mode
    /\ RectRendered(uploaded_files, ref_img_name, rotate_angle, crop_mode)

\* The rectangle of a run that the rectangle's widgets did not cause.  A
\* widget keeps its value while the run makes it with the arguments of the
\* last run and starts anew otherwise: Left and Right are made from img_w,
\* Top and Bottom from img_h, the cropper from the image it shows.
RectAfter(fs, ref, angle, mode) ==
    LET size  == ProcessedSize(fs, ref, angle)
        def   == ManualDefault(size)
        keepW == /\ WasRendered("manual")
                 /\ ProcessedSize(uploaded_files, ref_img_name, rotate_angle)[1] = size[1]
        keepH == /\ WasRendered("manual")
                 /\ ProcessedSize(uploaded_files, ref_img_name, rotate_angle)[2] = size[2]
        same  == /\ WasRendered("draw")
                 /\ ImgMap(uploaded_files, ref_img_name) = ImgMap(fs, ref)
                 /\ rotate_angle = angle
    IN  IF ~RectRendered(fs, ref, angle, mode) THEN NoRect
        ELSE IF mode = "draw"
          THEN IF same THEN rect
               ELSE LET h == DefaultBoxAxis(size[1])
                        v == DefaultBoxAxis(size[2])
                    IN  <<h[1], v[1], h[2], v[2]>>
        ELSE << IF keepW THEN rect[1] ELSE def[1],
                IF keepH THEN rect[2] ELSE def[2],
                IF keepW THEN rect[3] ELSE def[3],
                IF keepH THEN rect[4] ELSE def[4] >>

\* ------------------------------------------------------------ a script run
NoPreview == [kind |-> "none", size |-> <<0, 0>>]

\* Lines 113-119: the reference cropped to the rectangle, or the warning.
Preview(r) ==
    IF r[3] > r[1] /\ r[4] > r[2]
    THEN [kind |-> "crop", size |-> CropSize(r)]
    ELSE [kind |-> "warning", size |-> <<0, 0>>]

\* What a run leaves on the page when the batch button was not pressed in
\* it: nothing of a batch.
NoBatch ==
    /\ i' = 0
    /\ zf' = <<>>
    /\ console' = <<>>
    /\ outcome' = <<>>
    /\ progress' = <<0, 0>>
    /\ status_text' = Quiet
    /\ alert' = ""
    /\ download' = <<>>

\* A run of the script with the widgets at these values and the batch
\* button not pressed.  A widget the run does not reach (nothing uploaded:
\* line 181; the run raised before the widget's line) is not rendered and
\* starts from its default when it is rendered again.  A run started while
\* the batch loop of the last one is going on ends that loop: the page is
\* the new run's.
Rerun(fs, ref, angle, mode, r) ==
    LET line == IF fs = <<>> THEN 0 ELSE CrashLine(fs, ref, angle, mode, r)
    IN  /\ uploaded_files' = fs
        /\ ref_img_name' = IF fs = <<>> THEN NoName ELSE ref
        /\ rotate_angle' = IF fs = <<>> \/ line = 44 THEN 0 ELSE angle
        /\ crop_mode' = IF fs = <<>> \/ line \in {44, 51} THEN "draw" ELSE mode
        /\ rect' = IF RectRendered(fs, ref, angle, mode) THEN r ELSE NoRect
        /\ pc' = IF fs = <<>> THEN "empty"
                 ELSE IF line /= 0 THEN "crashed" ELSE "idle"
        /\ preview' = IF fs /= <<>> /\ line = 0 THEN Preview(r) ELSE NoPreview
        /\ NoBatch
        /\ UNCHANGED draw_checks

\* Whether the last run rendered the widget of this line.
Reached(line) ==
    /\ pc /= "empty"
    /\ LET at == CrashLine(uploaded_files, ref_img_name, rotate_angle,
                           crop_mode, rect)
       IN  at = 0 \/ at > line

\* ----------------------------------------------------------- user actions
\* Each starts a run of the script, also while the batch loop is going on.
\* Lines 25-29: one more file is uploaded.
AddFile(U) ==
    /\ Len(uploaded_files) < MaxFiles
    /\ \E f \in U :
         LET fs  == Append(uploaded_files, f)
             ref == Selected(fs)
         IN  Rerun(fs, ref, rotate_angle, crop_mode,
                   RectAfter(fs, ref, rotate_angle, crop_mode))

\* Lines 25-29: an uploaded file is removed.
RemoveFile ==
    /\ \E k \in 1..Len(uploaded_files) :
         LET fs  == [j \in 1..(Len(uploaded_files) - 1) |->
                       IF j < k THEN uploaded_files[j] ELSE uploaded_files[j + 1]]
             ref == Selected(fs)
         IN  Rerun(fs, ref, rotate_angle, crop_mode,
                   IF fs = <<>> THEN NoRect
                   ELSE RectAfter(fs, ref, rotate_angle, crop_mode))

\* Lines 38-43: another reference image is selected.
SelectReference ==
    /\ pc /= "empty"
    /\ \E n \in Keys(uploaded_files) \ {ref_img_name} :
         Rerun(uploaded_files, n, rotate_angle, crop_mode,
               RectAfter(uploaded_files, n, rotate_angle, crop_mode))

\* Line 47: the rotation slider is moved.
Rotate ==
    /\ Reached(47)
    /\ \E a \in Angles \ {rotate_angle} :
         Rerun(uploaded_files, ref_img_name, a, crop_mode,
               RectAfter(uploaded_files, ref_img_name, a, crop_mode))

\* Line 61: the other input mode is chosen.
SelectMode ==
    /\ Reached(61)
    /\ \E m \in Modes \ {crop_mode} :
         Rerun(uploaded_files, ref_img_name, rotate_angle, m,
               RectAfter(uploaded_files, ref_img_name, rotate_angle, m))

\* Lines 71-83: the box is dragged or resized along one axis.
DrawBox ==
    /\ Reached(71)
    /\ crop_mode = "draw"
    /\ LET size == ProcessedSize(uploaded_files, ref_img_name, rotate_angle)
       IN  \/ \E e \in {DrawExtent(b) : b \in CropBoxAxis(size[1])} :
                Rerun(uploaded_files, ref_img_name, rotate_angle, crop_mode,
                      <<e[1], rect[2], e[2], rect[4]>>)
           \/ \E e \in {DrawExtent(b) : b \in CropBoxAxis(size[2])} :
                Rerun(uploaded_files, ref_img_name, rotate_angle, crop_mode,
                      <<rect[1], e[1], rect[3], e[2]>>)

\* Lines 89-100: one of the four numbers is changed and the form submitted.
SubmitManual ==
    /\ Reached(89)
    /\ crop_mode = "manual"
    /\ LET size == ProcessedSize(uploaded_files, ref_img_name, rotate_angle)
       IN  \E field \in 1..4 :
             \E v \in 0..ManualMax(IF field \in {1, 3} THEN size[1] ELSE size[2]) :
               Rerun(uploaded_files, ref_img_name, rotate_angle, crop_mode,
                     [rect EXCEPT ![field] = v])

\* ------------------------------------------------------------ the batch
\* Lines 124-131: the button is pressed, on any page that has it, also
\* while the loop is going on.  An invalid rectangle gets the error
\* message and nothing else; a valid one opens the archive and enters the
\* loop.
ClickCrop ==
    /\ pc \in {"idle", "rejected", "loop", "done"}
    /\ UNCHANGED <<uploaded_files, ref_img_name, rotate_angle, crop_mode,
                   rect, preview, draw_checks>>
    /\ i' = 0
    /\ zf' = <<>>
    /\ console' = <<>>
    /\ outcome' = <<>>
    /\ status_text' = Quiet
    /\ download' = <<>>
    /\ IF ~ValidRect(rect)
       THEN /\ pc' = "rejected"
            /\ alert' = "Please select a valid crop area first."
            /\ progress' = <<0, 0>>
       ELSE /\ pc' = "loop"
            /\ alert' = ""
            /\ progress' = <<0, Len(uploaded_files)>>

\* Lines 134-168: one iteration, file i (counted from 0); res is what its
\* try block did.
ProcessItem ==
    /\ pc = "loop"
    /\ i < Len(uploaded_files)
    /\ \E file \in {uploaded_files[i + 1]} :
       \E res \in {TryItem(i + 1, file, rotate_angle, rect)} :
           /\ status_text' = Processing(file.name)
           /\ zf' = zf \o res.entries
           /\ console' = IF res.raised = "none" THEN console
                         ELSE Append(console, file.name)
           /\ outcome' = Append(outcome, [item |-> i + 1, raised |-> res.raised,
                                           fmt |-> res.fmt])
           /\ progress' = <<i + 1, Len(uploaded_files)>>
           /\ i' = i + 1
    /\ UNCHANGED <<uploaded_files, ref_img_name, rotate_angle, crop_mode,
                   rect, pc, preview, alert, download, draw_checks>>

\* Finish that offers the archive only when no item failed.
MutFinish ==
    /\ pc = "loop"
    /\ i = Len(uploaded_files)
    /\ pc' = "done"
    /\ status_text' = Complete
    /\ download' = IF console = <<>> THEN <<zf>> ELSE <<>>
    /\ UNCHANGED <<uploaded_files, ref_img_name, rotate_angle, crop_mode,
                   rect, preview, i, zf, console, outcome, progress, alert,
                   draw_checks>>

\* Lines 170-178: the loop is over; the archive is closed and offered.
Finish ==
    /\ pc = "loop"
    /\ i = Len(uploaded_files)
    /\ pc' = "done"
    /\ status_text' = Complete
    /\ download' = <<zf>>
    /\ UNCHANGED <<uploaded_files, ref_img_name, rotate_angle, crop_mode,
                   rect, preview, i, zf, console, outcome, progress, alert,
                   draw_checks>>

\* Lines 173-178: the archive is downloaded.  The button starts a run in
\* which the batch button is not pressed.
Download ==
    /\ pc = "done"
    /\ Rerun(uploaded_files, ref_img_name, rotate_angle, crop_mode, rect)

\* ---------------------------------------------------------- specifications
\* Nothing is uploaded: line 181.
Init ==
    /\ draw_checks \in BOOLEAN
    /\ uploaded_files = <<>>
    /\ ref_img_name = NoName
    /\ rotate_angle = 0
    /\ crop_mode = "draw"
    /\ rect = NoRect
    /\ pc = "empty"
    /\ preview = NoPreview
    /\ i = 0
    /\ zf = <<>>
    /\ console = <<>>
    /\ outcome = <<>>
    /\ progress = <<0, 0>>
    /\ status_text = Quiet
    /\ alert = ""
    /\ download = <<>>

\* The script's transitions, the uploads drawn from the files U.
Step(U) ==
    \/ AddFile(U)
    \/ RemoveFile
    \/ SelectReference
    \/ Rotate
    \/ SelectMode
    \/ DrawBox
    \/ SubmitManual
    \/ ClickCrop
    \/ ProcessItem
    \/ Finish
    \/ Download

\* The batch alone: the button and the loop it starts.
Batch ==
    \/ ClickCrop
    \/ ProcessItem
    \/ Finish

\* The rectangles each input mode can hand to a run over an image of this
\* size (lines 78-83, 92-100).
WidgetRects(mode, size) ==
    IF mode = "draw"
    THEN {<<h[1], v[1], h[2], v[2]>> :
            h \in {DrawExtent(b) : b \in CropBoxAxis(size[1])},
            v \in {DrawExtent(b) : b \in CropBoxAxis(size[2])}}
    ELSE {<<l, t, r, b>> :
            l \in 0..ManualMax(size[1]), t \in 0..ManualMax(size[2]),
            r \in 0..ManualMax(size[1]), b \in 0..ManualMax(size[2])}

\* All sequences of 0 to n elements of U.
SeqsUpTo(U, n) == UNION {[1..m -> U] : m \in 0..n}

\* The page after a run that reached the batch button, with these files
\* uploaded and the widgets at these values.
Idle(fs, ref, angle, mode, r) ==
    /\ uploaded_files = fs
    /\ ref_img_name = ref
    /\ rotate_angle = angle
    /\ crop_mode = mode
    /\ rect = r
    /\ pc = "idle"
    /\ preview = Preview(r)
    /\ i = 0
    /\ zf = <<>>
    /\ console = <<>>
    /\ outcome = <<>>
    /\ progress = <<0, 0>>
    /\ status_text = Quiet
    /\ alert = ""
    /\ download = <<>>

\* The whole image of the reference as the rectangle.
WholeImage(size) == <<0, 0, size[1], size[2]>>

\* The rectangles a page is given: the whole image alone, or every
\* rectangle the mode's widgets can give.
PageRects(whole, mode, size) ==
    IF whole
    THEN {WholeImage(size)} \cap WidgetRects(mode, size)
    ELSE WidgetRects(mode, size)

\* The pages on which the batch button can be pressed, over the files U:
\* any upload whose reference loads, a rotation out of As, a mode out of
\* Ms, and a rectangle out of PageRects.
Pages(U, As, Ms, whole) ==
    /\ draw_checks \in BOOLEAN
    /\ \E fs \in SeqsUpTo(U, MaxFiles) \ {<<>>} :
         \E ref \in Keys(fs), angle \in As, mode \in Ms :
           \E r \in PageRects(whole, mode, ProcessedSize(fs, ref, angle)) :
             /\ CrashLine(fs, ref, angle, mode, r) = 0
             /\ Idle(fs, ref, angle, mode, r)

\* ----------------------------------------------------------------- files
APng == <<"a", ".", "p", "n", "g">>
BJpg == <<"b", ".", "j", "p", "g">>
Full == <<MaxDim, MaxDim>>
Strip == <<1, MaxDim>>

\* The script as a whole, over a few files: two that load, of different
\* sizes, and one that is cut short, of the name of one of them.
Files ==
    { File(APng, ImagePng,  Full,  "RGB"),
      File(BJpg, ImageJpeg, Strip, "RGB"),
      File(BJpg, ImageJpeg, Full,  "truncated") }

Next == Step(Files)

Spec == Init /\ [][Next]_vars

\* The batch over files that differ in what can make an item fail: every
\* name, declared type and content, all of one size.
FailFiles ==
    {File(n, t, Full, c) :
        n \in {APng, BJpg}, t \in {ImagePng, ImageJpeg},
        c \in {"RGB", "RGBA", "corrupt", "truncated"}}

FailInit == Pages(FailFiles, Angles, Modes, TRUE)

FailSpec == FailInit /\ [][Batch]_vars

\* The script as a whole with a run running on once it has started (a run
\* of the script is not suspended between two of its statements) and the
\* user free to use every widget of the page at any time, over images of
\* one pixel: one that is processed, one that cannot be saved, one that is
\* no image and one that is cut short.
Pixel == <<1, 1>>

FairFiles ==
    { File(APng, ImagePng,  Pixel, "RGB"),
      File(BJpg, ImageJpeg, Pixel, "RGBA"),
      File(BJpg, ImageJpeg, Pixel, "corrupt"),
      File(BJpg, ImageJpeg, Pixel, "truncated") }

FairNext == Step(FairFiles)

FairSpec ==
    Init /\ [][FairNext]_vars /\ WF_vars(ProcessItem) /\ WF_vars(Finish)

\* The batch over images of every size, with every rectangle.
Sizes == (1..MaxDim) \X (1..MaxDim)

GeomFiles == {File(APng, ImagePng, s, "RGB") : s \in Sizes}

GeomInit == Pages(GeomFiles, Angles, Modes, FALSE)

GeomSpec == GeomInit /\ [][Batch]_vars

\* The batch over names of every shape: a stem of dots and letters, then one
\* of the extensions the uploader accepts; one of the files is no image.

Stems == SeqsUpTo({"a", "."}, MaxStem)

DotPng  == <<".", "p", "n", "g">>
DotJpeg == <<".", "j", "p", "e", "g">>

NameFiles ==
    {File(st \o e, ImagePng, Full, "RGB") : st \in Stems, e \in {DotPng, DotJpeg}}
    \cup {File(APng, ImagePng, Full, "corrupt")}

NameInit == Pages(NameFiles, {0}, {"manual"}, TRUE)

NameSpec == NameInit /\ [][Batch]_vars

\* The batch over declared types of every shape: none, the empty one, and
\* a subtype in any case, also of letters beyond ASCII, after no, one or
\* two '/'.
Subtypes ==
    { <<"p","n","g">>, <<"j","p","g">>, <<"j","p","e","g">>, <<"J","p","g">>,
      <<"J","P","G">>, <<"g","i","f">>, <<"x","-","p","n","g">>, <<>>,
      <<"ß">>, <<"j","p","é","g">>, <<"µ">> }

TypePrefixes == { <<>>, <<"i","m","a","g","e","/">>, <<"a","/","b","/">> }

Types == {None, <<>>} \cup {pre \o sub : pre \in TypePrefixes, sub \in Subtypes}

TypeFiles ==
    {File(APng, t, Full, "RGB") : t \in Types}
    \cup {File(BJpg, ImageJpeg, Full, "RGBA"), File(BJpg, ImageJpg, Full, "corrupt")}

TypeInit == Pages(TypeFiles, {0}, {"manual"}, TRUE)

TypeSpec == TypeInit /\ [][Batch]_vars

\* ================================================================= claims
Triggered == pc \in {"loop", "done"}

\* The entries written for file number k.
EntriesOf(k) == {j \in 1..Len(zf) : zf[j].item = k}

\* File number k's try block raised.
Failed(k) == outcome[k].raised /= "none"

\* The size of file number k as the loop crops it: after the rotation.
ItemSize(k) ==
    IF rotate_angle /= 0
    THEN RotatedSize(uploaded_files[k].size, -rotate_angle)
    ELSE uploaded_files[k].size

\* C1: in a batch run, an item that fails does not end the run: the loop
\* goes on to every later item, and the archive holds exactly one entry for
\* each item that succeeded, none for an item that failed, in upload order.
C1_FailuresIsolated ==
    Triggered =>
      /\ Len(outcome) = i
      /\ \A k \in 1..Len(outcome) :
           /\ outcome[k].item = k
           /\ Cardinality(EntriesOf(k)) = IF Failed(k) THEN 0 ELSE 1
      /\ \A j \in 1..Len(zf) : zf[j].item \in 1..Len(outcome)
      /\ \A j1, j2 \in 1..Len(zf) : j1 < j2 => zf[j1].item < zf[j2].item
      /\ pc = "done" => Len(outcome) = Len(uploaded_files)

\* A run in which the first item failed and the second, processed after
\* it, is in the archive.
C1_Witness ==
    /\ pc = "done"
    /\ Len(uploaded_files) >= 2
    /\ Failed(1)
    /\ ~Failed(2)
    /\ Len(zf) = 1
    /\ zf[1].item = 2

\* C2: with right <= left or bottom <= top, pressing the button shows the
\* error and starts nothing: the loop is never entered, no item is visited,
\* nothing is written and no download is offered; the preview warns.
C2_InvalidRectangleRejected ==
    (rect[3] <= rect[1] \/ rect[4] <= rect[2]) =>
      /\ ~Triggered
      /\ pc \in {"idle", "rejected"} => preview.kind = "warning"
      /\ pc = "rejected" =>
           /\ alert /= ""
           /\ outcome = <<>>
           /\ zf = <<>>
           /\ console = <<>>
           /\ download = <<>>
           /\ status_text = Quiet

\* The button pressed with right = left.
C2_Witness ==
    /\ pc = "rejected"
    /\ rect[3] = rect[1]
    /\ rect[4] > rect[2]
    /\ alert /= ""

\* C3: after a run, the names recorded as failed are those of the items
\* that failed, the page reports them, and a run with a failed item is not
\* reported as a success.
C3_FailuresReported ==
    pc = "done" =>
      LET failed == {uploaded_files[k].name : k \in {j \in 1..Len(outcome) : Failed(j)}}
      IN  /\ {console[j] : j \in 1..Len(console)} = failed
          /\ failed /= {} =>
               /\ status_text /= Complete
               /\ alert /= ""

\* C4: an item smaller, after rotation, than the rectangle needs fails and
\* gets no entry; no entry is padded.
C4_OutOfBoundsFails ==
    Triggered =>
      /\ \A k \in 1..Len(outcome) :
           (rect[3] > ItemSize(k)[1] \/ rect[4] > ItemSize(k)[2]) =>
             /\ Failed(k)
             /\ EntriesOf(k) = {}
      /\ \A j \in 1..Len(zf) : ~zf[j].padded

\* Whether `out` is `name` with the suffix put before its extension: the
\* extension starts at the name's last dot when a character other than a
\* dot comes before it, and is empty otherwise.
IsCroppedName(name, out) ==
    LET dots   == {j \in 1..Len(name) : name[j] = "."}
        hasExt == \E j \in dots : \E k \in 1..(j - 1) : name[k] /= "."
        cut    == IF hasExt THEN MaxOf(dots) - 1 ELSE Len(name)
    IN  /\ Len(out) = Len(name) + Len(Suffix)
        /\ \A j \in 1..Len(out) :
             out[j] = IF j <= cut THEN name[j]
                      ELSE IF j <= cut + Len(Suffix) THEN Suffix[j - cut]
                      ELSE name[j - Len(Suffix)]

\* C5: every entry is named <stem>_Cropped<extension> of the file it came
\* from, and every file that was processed without error has one entry.
C5_EntryNames ==
    Triggered =>
      /\ \A j \in 1..Len(zf) :
           IsCroppedName(uploaded_files[zf[j].item].name, zf[j].name)
      /\ \A k \in 1..Len(outcome) :
           ~Failed(k) => Cardinality(EntriesOf(k)) = 1

\* An entry of a file whose name has two dots next to each other.
C5_Witness ==
    /\ pc = "done"
    /\ \E j \in 1..Len(zf) :
         /\ uploaded_files[zf[j].item].name = <<"a", ".", ".", "p", "n", "g">>
         /\ zf[j].name = <<"a", ".">> \o Suffix \o DotPng

\* Whether f is the format the declared type t asks for.
IsFormatOf(t, f) ==
    /\ t \in {ImageJpg, ImageJpeg} => f = JPEG
    /\ t = ImagePng => f = PNG
    /\ (t = None \/ t = <<>>) => f = PNG
    /\ (t /= None /\ t /= <<>>) =>
         \E d \in 0..Len(t) :
           /\ d = 0 \/ t[d] = "/"
           /\ \A j \in (d + 1)..Len(t) : t[j] /= "/"
           /\ LET u == Upper(SubSeq(t, d + 1, Len(t)))
              IN  f = IF u = JPG THEN JPEG ELSE u

\* C6: the format chosen for an item is the upper-cased subtype of its own
\* declared type, JPG made JPEG, and PNG when no type is declared.
C6_FormatOfDeclaredType ==
    Triggered =>
      /\ \A k \in 1..Len(outcome) :
           outcome[k].fmt /= NotReached =>
             IsFormatOf(uploaded_files[k].type, outcome[k].fmt)
      /\ \A j \in 1..Len(zf) :
           IsFormatOf(uploaded_files[zf[j].item].type, zf[j].format)

\* An entry in JPEG of a file declared image/jpg.
C6_Witness ==
    /\ pc = "done"
    /\ \E j \in 1..Len(zf) :
         /\ uploaded_files[zf[j].item].type = ImageJpg
         /\ zf[j].format = JPEG

\* C7: the rectangle the loop applies has right > left and bottom > top
\* and lies within the reference image as rotated, in both input modes.
C7_RectangleWithinReference ==
    Triggered =>
      LET f == ImgMap(uploaded_files, ref_img_name)
          W == IF (rotate_angle % 180) = 0 THEN f.size[1] ELSE f.size[2]
          H == IF (rotate_angle % 180) = 0 THEN f.size[2] ELSE f.size[1]
      IN  /\ rect[3] > rect[1]
          /\ rect[4] > rect[2]
          /\ rect[1] \in 0..W /\ rect[3] \in 0..W
          /\ rect[2] \in 0..H /\ rect[4] \in 0..H

\* The loop running with manual coordinates that reach the right edge of a
\* reference turned on its side.
C7_Witness ==
    /\ pc = "loop"
    /\ crop_mode = "manual"
    /\ rotate_angle = -90
    /\ ImgMap(uploaded_files, ref_img_name).size = Strip
    /\ rect[3] = MaxDim
    /\ rect[4] = 1

\* C8: the finished archive holds no two entries of one name, or the run
\* reports an error.
C8_NoDuplicateNames ==
    pc = "done" =>
      \/ \A j1, j2 \in 1..Len(zf) : j1 /= j2 => zf[j1].name /= zf[j2].name
      \/ alert /= ""

\* The loop is over with every item visited once and the archive of the
\* items that succeeded offered.
RunEnded ==
    /\ pc = "done"
    /\ i = Len(uploaded_files)
    /\ \A k \in 1..Len(uploaded_files) :
         Cardinality({j \in 1..Len(outcome) : outcome[j].item = k}) = 1
    /\ download = <<zf>>
    /\ Len(zf) = Cardinality({k \in 1..Len(outcome) : ~Failed(k)})

\* C9, as claimed: every run that starts ends, having visited each item
\* once, with the archive of the items that succeeded offered, empty when
\* none did.
C9_RunEndsWithArchive ==
    [](pc = "loop" => <>RunEnded)

\* C9, amended: every run that starts ends like that unless the user
\* abandons it, by touching a widget while the loop is going on (another
\* run's page takes its place) or by pressing the button again (the loop is
\* back at its first item).  A run at its first item gets past it or is
\* replaced; a run past its first item ends or is abandoned; a run that is
\* over has visited each item once and offers the archive.
C9_RunEndsUnlessAbandoned ==
    /\ [](pc = "done" => RunEnded)
    /\ []((pc = "loop" /\ i = 0) => <>(pc /= "loop" \/ i > 0))
    /\ []((pc = "loop" /\ i > 0) =>
            <>(\/ RunEnded
               \/ pc \notin {"loop", "done"}
               \/ pc = "loop" /\ i = 0))

\* A run of two items that both failed: an archive of no entries, offered.
C9_Witness ==
    /\ pc = "done"
    /\ Len(uploaded_files) = 2
    /\ Failed(1) /\ Failed(2)
    /\ zf = <<>>
    /\ download = << <<>> >>

\* C10: at angle 0 nothing is rotated and an item that contains the
\* rectangle gives an entry of size (right-left, bottom-top).
C10_CropSizeAtAngleZero ==
    (Triggered /\ rotate_angle = 0) =>
      /\ \A j \in 1..Len(zf) :
           /\ ~zf[j].rotated
           /\ LET size == uploaded_files[zf[j].item].size
              IN  (rect[3] <= size[1] /\ rect[4] <= size[2]) =>
                    /\ zf[j].size[1] = rect[3] - rect[1]
                    /\ zf[j].size[2] = rect[4] - rect[2]
                    /\ ~zf[j].padded
      /\ \A k \in 1..Len(outcome) : ~Failed(k) => EntriesOf(k) /= {}

\* Two images of one size cropped, at angle 0, to a rectangle that is not
\* the whole image.
C10_Witness ==
    /\ pc = "done"
    /\ rotate_angle = 0
    /\ Len(zf) = 2
    /\ uploaded_files[1].size = Full
    /\ uploaded_files[2].size = Full
    /\ rect = <<1, 0, MaxDim, 1>>
    /\ zf[1].size = <<MaxDim - 1, 1>>
    /\ zf[2].size = <<MaxDim - 1, 1>>
====
